---- MODULE Spec2Model ----
(***************************************************************************)
(* Model of cmk/utils/prediction/_prediction.py: the time series           *)
(* resampling functions, the period catalogue and the time-window          *)
(* partitioner, the statistical summary, the PredictionStore (two files    *)
(* per timegroup on a POSIX file system) and compute_prediction.           *)
(*                                                                         *)
(* Representation of Python values:                                        *)
(*   None            <<>>                                                  *)
(*   a float         <<n, d>>, the reduced fraction n/d with d > 0         *)
(*   an optional str <<>> or <<s>>                                         *)
(*   a raised error  [tag |-> <exception class>, val |-> <<>>]             *)
(*   a return value  [tag |-> "ok", val |-> <value>]                       *)
(***************************************************************************)
EXTENDS Integers, Sequences, FiniteSets, TLC

VARIABLES
    tzone,      \* the process's time zone (the TZ the time module uses)
    dirExists,  \* PredictionStore._dir exists on disk
    files,      \* files[<<timegroup, kind>>] = [exists, text]: the directory's entries
    handle,     \* handle[p]: the file p has open for writing, if any, whether it is
                \* still linked at its path, and whether p alone has acted on the
                \* path since it opened the file
    lastop,     \* lastop[f]: the last write_text or unlink completed on path f, by
                \* whom, and whether alone on the path from its open to its write
    pc,         \* pc[p]: the statement process p executes next
    frame,      \* frame[p]: arguments, locals and outcome of p's running or last operation
    obs,        \* what the get_info / get_data made in this state of the store returned
    env,        \* the data source's behaviour and cmk.utils.debug.enabled()
    call,       \* the pure function called last, with its arguments
    ret         \* what that call returned or raised

vars == <<tzone, dirExists, files, handle, lastop, pc, frame, obs, env, call, ret>>

------------------------------------------------------------------------------
(* Python values *)

None == <<>>

Some(x) == <<x>>

Ok(v) == [tag |-> "ok", val |-> v]

Raise(e) == [tag |-> e, val |-> <<>>]

RECURSIVE Gcd(_, _)
Gcd(a, b) == IF b = 0 THEN a ELSE Gcd(b, a % b)

Abs(n) == IF n < 0 THEN -n ELSE n

\* the float n/d
Rat(n, d) ==
    LET s == IF d < 0 THEN -1 ELSE 1
        g == Gcd(Abs(n), Abs(d))
    IN  <<(s * n) \div g, (s * d) \div g>>

Num(i) == <<i, 1>>

RatAdd(a, b) == Rat(a[1] * b[2] + b[1] * a[2], a[2] * b[2])

RatSub(a, b) == Rat(a[1] * b[2] - b[1] * a[2], a[2] * b[2])

RatMul(a, b) == Rat(a[1] * b[1], a[2] * b[2])

RatDiv(a, b) == Rat(a[1] * b[2], a[2] * b[1])

RatAbs(a) == <<Abs(a[1]), a[2]>>

RatLess(a, b) == a[1] * b[2] < b[1] * a[2]

RECURSIVE SeqSum(_)
SeqSum(s) == IF s = <<>> THEN Num(0) ELSE RatAdd(s[1], SeqSum(Tail(s)))

\* Python's max(): the first of the largest elements
RECURSIVE SeqMax(_)
SeqMax(s) ==
    IF Len(s) = 1 THEN s[1]
    ELSE LET m == SeqMax(Tail(s)) IN IF RatLess(s[1], m) THEN m ELSE s[1]

RECURSIVE SeqMin(_)
SeqMin(s) ==
    IF Len(s) = 1 THEN s[1]
    ELSE LET m == SeqMin(Tail(s)) IN IF RatLess(m, s[1]) THEN m ELSE s[1]

\* range(start, stop, step) for step /= 0
PyRange(start, stop, step) ==
    LET n == IF step > 0
             THEN (IF stop > start THEN (stop - start + step - 1) \div step ELSE 0)
             ELSE (IF start > stop THEN (start - stop - step - 1) \div (-step) ELSE 0)
    IN  [k \in 1..n |-> start + (k - 1) * step]

\* str.lower() on the names the model uses
Lower(s) ==
    CASE s = "MAX" -> "max"
      [] s = "Min" -> "min"
      [] s = "AVERAGE" -> "average"
      [] s = "Median" -> "median"
      [] OTHER -> s

------------------------------------------------------------------------------
(* rrd_timestamps, aggregation_functions *)

rrd_timestamps_from_start(time_window) ==
    LET start == time_window[1]
        end == time_window[2]
        step == time_window[3]
    IN  IF step = 0 THEN <<>> ELSE PyRange(start, end, step)

rrd_timestamps(time_window) ==
    LET start == time_window[1]
        end == time_window[2]
        step == time_window[3]
        r == IF step = 0 THEN <<>> ELSE PyRange(start, end, step)
    IN  [k \in 1..Len(r) |-> r[k] + step]

fmean(cleaned_series) == RatDiv(SeqSum(cleaned_series), Num(Len(cleaned_series)))

aggregation_functions_dropfalsy(series, aggr) ==
    LET cleaned_series == SelectSeq(series, LAMBDA x : x /= None /\ x /= Num(0))
        a == IF aggr = None THEN "max" ELSE Lower(aggr[1])
    IN  IF cleaned_series = <<>> THEN Ok(None)
        ELSE CASE a = "average" -> Ok(fmean(cleaned_series))
               [] a = "max" -> Ok(SeqMax(cleaned_series))
               [] a = "min" -> Ok(SeqMin(cleaned_series))
               [] OTHER -> Raise("ValueError")

aggregation_functions_fallback(series, aggr) ==
    LET cleaned_series == SelectSeq(series, LAMBDA x : x /= None)
        a == IF aggr = None THEN "max" ELSE Lower(aggr[1])
    IN  IF cleaned_series = <<>> THEN Ok(None)
        ELSE CASE a = "average" -> Ok(fmean(cleaned_series))
               [] a = "min" -> Ok(SeqMin(cleaned_series))
               [] OTHER -> Ok(SeqMax(cleaned_series))

aggregation_functions(series, aggr) ==
    LET cleaned_series == SelectSeq(series, LAMBDA x : x /= None)
        a == IF aggr = None THEN "max" ELSE Lower(aggr[1])
    IN  IF cleaned_series = <<>> THEN Ok(None)
        ELSE CASE a = "average" -> Ok(fmean(cleaned_series))
               [] a = "max" -> Ok(SeqMax(cleaned_series))
               [] a = "min" -> Ok(SeqMin(cleaned_series))
               [] OTHER -> Raise("ValueError")

------------------------------------------------------------------------------
(* class TimeSeries *)

\* TimeSeries(data, time_window) with the identity conversion
TimeSeries(data, time_window) ==
    [start |-> time_window[1], end |-> time_window[2], step |-> time_window[3],
     values |-> data]

\* int(x) of a float: the fraction is cut off, towards zero
PyInt(r) == IF r[1] >= 0 THEN r[1] \div r[2] ELSE -((-r[1]) \div r[2])

ConversionNames == {"identity", "negate"}

\* conversion(v): the default lambda v: v, or a caller's change of sign
conversion(name, v) == IF name = "identity" THEN v ELSE RatSub(Num(0), v)

\* TimeSeries.__init__(data, time_window, conversion); time_window is None or a
\* tuple of integers. The window's bounds are read off the head of data when
\* time_window is None; nothing compares the values with the window.
TimeSeries_init(data, time_window, conv) ==
    LET build(tw, vals) ==
            Ok([start |-> tw[1], end |-> tw[2], step |-> tw[3],
                values |-> [k \in 1..Len(vals) |->
                              IF vals[k] = None THEN None ELSE conversion(conv, vals[k])]])
    IN  IF time_window /= None THEN build(time_window, data)
        ELSE IF data = <<>> \/ data[1] = None THEN Raise("ValueError")
        ELSE IF Len(data) < 2 THEN Raise("IndexError")
        ELSE IF data[2] = None THEN Raise("ValueError")
        ELSE IF Len(data) < 3 THEN Raise("IndexError")
        ELSE IF data[3] = None THEN Raise("ValueError")
        ELSE build(<<PyInt(data[1]), PyInt(data[2]), PyInt(data[3])>>,
                   SubSeq(data, 4, Len(data)))

twindow(self) == <<self.start, self.end, self.step>>

\* list(zip(rrd_timestamps(self.twindow), self.values))
time_data_pairs(self) ==
    LET ts == rrd_timestamps(twindow(self))
        n == IF Len(ts) < Len(self.values) THEN Len(ts) ELSE Len(self.values)
    IN  [k \in 1..n |-> <<ts[k], self.values[k]>>]

\* the loop body of bfill_upsample from its k-th target timestamp on; i counts from 0
RECURSIVE bfill_loop(_, _, _, _, _)
bfill_loop(self, targets, k, i, upsa) ==
    IF k > Len(targets) THEN Ok(upsa)
    ELSE LET current_times == rrd_timestamps(twindow(self)) IN
         IF i >= Len(current_times) THEN Raise("IndexError")
         ELSE LET i2 == IF targets[k] >= current_times[i + 1] THEN i + 1 ELSE i IN
              IF i2 >= Len(self.values) THEN Raise("IndexError")
              ELSE bfill_loop(self, targets, k + 1, i2, Append(upsa, self.values[i2 + 1]))

RECURSIVE bfill_loop_clamped(_, _, _, _, _)
bfill_loop_clamped(self, targets, k, i, upsa) ==
    IF k > Len(targets) THEN Ok(upsa)
    ELSE LET current_times == rrd_timestamps(twindow(self))
             last == Len(self.values) - 1
         IN  IF last < 0 THEN Raise("IndexError")
             ELSE LET i2 == IF i < last /\ targets[k] >= current_times[i + 1]
                            THEN i + 1 ELSE i
                  IN  bfill_loop_clamped(self, targets, k + 1, i2,
                                         Append(upsa, self.values[i2 + 1]))

bfill_upsample_clamped(self, tw) ==
    IF tw = twindow(self) THEN Ok(self.values)
    ELSE IF tw[3] = 0 THEN Raise("ValueError")
    ELSE bfill_loop_clamped(self, PyRange(tw[1], tw[2], tw[3]), 1, 0, <<>>)

bfill_upsample(self, tw) ==
    IF tw = twindow(self) THEN Ok(self.values)
    ELSE IF tw[3] = 0 THEN Raise("ValueError")
    ELSE bfill_loop(self, PyRange(tw[1], tw[2], tw[3]), 1, 0, <<>>)

\* the loop of downsample from the k-th (timestamp, value) pair on, then its tail
RECURSIVE downsample_loop(_, _, _, _, _, _, _)
downsample_loop(pairs, desired_times, cf, k, i, co, dwsa) ==
    IF k > Len(pairs)
    THEN LET diff_len == Len(desired_times) - Len(dwsa) IN
         IF diff_len > 0
         THEN LET a == aggregation_functions(co, cf) IN
              IF a.tag /= "ok" THEN a
              ELSE Ok(Append(dwsa, a.val) \o [j \in 1..(diff_len - 1) |-> None])
         ELSE Ok(dwsa)
    ELSE IF i >= Len(desired_times) THEN Raise("IndexError")
    ELSE IF pairs[k][1] > desired_times[i + 1]
         THEN LET a == aggregation_functions(co, cf) IN
              IF a.tag /= "ok" THEN a
              ELSE downsample_loop(pairs, desired_times, cf, k + 1, i + 1,
                                   <<pairs[k][2]>>, Append(dwsa, a.val))
         ELSE downsample_loop(pairs, desired_times, cf, k + 1, i,
                              Append(co, pairs[k][2]), dwsa)

downsample_always_groups(self, tw, cf) ==
    downsample_loop(time_data_pairs(self), rrd_timestamps(tw), cf, 1, 0, <<>>, <<>>)

downsample(self, tw, cf) ==
    IF tw = twindow(self) THEN Ok(self.values)
    ELSE downsample_loop(time_data_pairs(self), rrd_timestamps(tw), cf, 1, 0, <<>>, <<>>)

------------------------------------------------------------------------------
(* time.localtime, time.timezone, time.altzone: the C library's time zone  *)
(* rules. Two zones are modelled: UTC, and Europe/Berlin with its 2023     *)
(* daylight saving time from 2023-03-26 01:00 UTC to 2023-10-29 01:00 UTC. *)

TimeZones == {"UTC", "Europe/Berlin"}

ZoneRules ==
    [tz \in TimeZones |->
        IF tz = "UTC"
        THEN [timezone |-> 0, altzone |-> 0, dst_from |-> 0, dst_until |-> 0]
        ELSE [timezone |-> -3600, altzone |-> -7200,
              dst_from |-> 1679792400, dst_until |-> 1698541200]]

is_dst(timestamp) ==
    /\ ZoneRules[tzone].dst_from <= timestamp
    /\ timestamp < ZoneRules[tzone].dst_until

timezone_at(timestamp) ==
    IF is_dst(timestamp) THEN ZoneRules[tzone].altzone ELSE ZoneRules[tzone].timezone

\* days since 1970-01-01 of the local calendar day of t
LocalDay(t) == (t - timezone_at(t)) \div 86400

\* time.localtime(t).tm_wday: Monday is 0, and 1970-01-01 was a Thursday
tm_wday(t) == (LocalDay(t) + 3) % 7

\* time.localtime(t).tm_mday: the day of the month in the Gregorian calendar
tm_mday(t) ==
    LET z == LocalDay(t) + 719468
        era == z \div 146097
        doe == z - era * 146097
        yoe == (doe - doe \div 1460 + doe \div 36524 - doe \div 146096) \div 365
        doy == doe - (365 * yoe + yoe \div 4 - yoe \div 100)
        mp == (5 * doy + 2) \div 153
    IN  doy - (153 * mp + 2) \div 5 + 1

\* dateutils.weekday_ids()
weekday_ids ==
    <<"monday", "tuesday", "wednesday", "thursday", "friday", "saturday", "sunday">>

\* str(mday)
DayNames ==
    <<"1", "2", "3", "4", "5", "6", "7", "8", "9", "10", "11", "12", "13", "14", "15",
      "16", "17", "18", "19", "20", "21", "22", "23", "24", "25", "26", "27", "28",
      "29", "30", "31">>

------------------------------------------------------------------------------
(* the period catalogue and the partitioner *)

window_start_notz(timestamp, span) == timestamp % span

window_start(timestamp, span) == (timestamp - timezone_at(timestamp)) % span

group_by_wday(t) == <<weekday_ids[tm_wday(t) + 1], window_start(t, 86400)>>

group_by_day(t) == <<"everyday", window_start(t, 86400)>>

group_by_day_of_month(t) == <<DayNames[tm_mday(t)], window_start(t, 86400)>>

group_by_everyhour(t) == <<"everyhour", window_start(t, 3600)>>

PeriodNames == {"wday", "day", "hour", "minute"}

PREDICTION_PERIODS ==
    [p \in PeriodNames |->
        CASE p = "wday" -> [slice |-> 86400, groupby |-> "_group_by_wday", valid |-> 7]
          [] p = "day" -> [slice |-> 86400, groupby |-> "_group_by_day_of_month", valid |-> 28]
          [] p = "hour" -> [slice |-> 86400, groupby |-> "_group_by_day", valid |-> 1]
          [] p = "minute" -> [slice |-> 3600, groupby |-> "_group_by_everyhour", valid |-> 24]]

\* period_info.groupby(t)
groupby(period_info, t) ==
    CASE period_info.groupby = "_group_by_wday" -> group_by_wday(t)
      [] period_info.groupby = "_group_by_day_of_month" -> group_by_day_of_month(t)
      [] period_info.groupby = "_group_by_day" -> group_by_day(t)
      [] period_info.groupby = "_group_by_everyhour" -> group_by_everyhour(t)

get_timegroup_relative_time(t, period_info) ==
    LET g == groupby(period_info, t)
        from_time == t - g[2]
        until_time == from_time + period_info.slice
    IN  <<g[1], from_time, until_time, g[2]>>

time_slices_skip_now(timestamp, horizon, period_info, timegroup) ==
    LET abs_begin == timestamp - horizon
        begins == PyRange(timestamp - period_info.slice, abs_begin, -period_info.slice)
        r == [k \in 1..Len(begins) |-> get_timegroup_relative_time(begins[k], period_info)]
        kept == SelectSeq(r, LAMBDA x : x[1] = timegroup)
    IN  [k \in 1..Len(kept) |-> <<kept[k][2], kept[k][3]>>]

time_slices_inclusive(timestamp, horizon, period_info, timegroup) ==
    LET begins == PyRange(timestamp, timestamp - horizon - 1, -period_info.slice)
        r == [k \in 1..Len(begins) |-> get_timegroup_relative_time(begins[k], period_info)]
        kept == SelectSeq(r, LAMBDA x : x[1] = timegroup)
    IN  [k \in 1..Len(kept) |-> <<kept[k][2], kept[k][3]>>]

time_slices(timestamp, horizon, period_info, timegroup) ==
    LET abs_begin == timestamp - horizon
        begins == PyRange(timestamp, abs_begin, -period_info.slice)
        r == [k \in 1..Len(begins) |-> get_timegroup_relative_time(begins[k], period_info)]
        kept == SelectSeq(r, LAMBDA x : x[1] = timegroup)
    IN  [k \in 1..Len(kept) |-> <<kept[k][2], kept[k][3]>>]

------------------------------------------------------------------------------
(* the statistical summary and the resampling onto one grid *)

\* math.sqrt(r), kept symbolic
sqrt(r) == <<"sqrt", r[1], r[2]>>

std_dev_biased(point_line, average) ==
    LET samples == Len(point_line)
        squares == [k \in 1..samples |-> RatMul(point_line[k], point_line[k])]
    IN  IF samples = 1 THEN None
        ELSE sqrt(RatDiv(RatAbs(RatSub(SeqSum(squares),
                                       RatMul(RatMul(average, average), Num(samples)))),
                         Num(samples)))

std_dev(point_line, average) ==
    LET samples == Len(point_line)
        squares == [k \in 1..samples |-> RatMul(point_line[k], point_line[k])]
    IN  IF samples = 1 THEN None
        ELSE sqrt(RatDiv(RatAbs(RatSub(SeqSum(squares),
                                       RatMul(RatMul(average, average), Num(samples)))),
                         Num(samples - 1)))

DataStat(average, min_, max_, stdev) ==
    [average |-> average, min_ |-> min_, max_ |-> max_, stdev |-> stdev]

\* zip(*slices): one column per index every slice has
Columns(slices) ==
    IF slices = <<>> THEN <<>>
    ELSE LET n == CHOOSE m \in {Len(slices[j]) : j \in 1..Len(slices)} :
                      \A j \in 1..Len(slices) : m <= Len(slices[j])
         IN  [k \in 1..n |-> [j \in 1..Len(slices) |-> slices[j][k]]]

data_stats_none_as_zero(slices) ==
    LET cols == Columns(slices)
        Point(time_column) ==
            LET point_line == [k \in 1..Len(time_column) |->
                                  IF time_column[k] = None THEN Num(0) ELSE time_column[k]]
            IN
            IF SelectSeq(time_column, LAMBDA x : x /= None) /= <<>>
            THEN LET average == RatDiv(SeqSum(point_line), Num(Len(point_line))) IN
                 DataStat(average, SeqMin(point_line), SeqMax(point_line),
                          std_dev(point_line, average))
            ELSE None
    IN  [k \in 1..Len(cols) |-> Point(cols[k])]

data_stats(slices) ==
    LET cols == Columns(slices)
        Point(time_column) ==
            LET point_line == SelectSeq(time_column, LAMBDA x : x /= None) IN
            IF point_line /= <<>>
            THEN LET average == RatDiv(SeqSum(point_line), Num(Len(point_line))) IN
                 DataStat(average, SeqMin(point_line), SeqMax(point_line),
                          std_dev(point_line, average))
            ELSE None
    IN  [k \in 1..Len(cols) |-> Point(cols[k])]

\* the list comprehension of _upsample from its k-th slice on
RECURSIVE upsample_loop(_, _, _, _)
upsample_loop(slices, tw, k, acc) ==
    IF k > Len(slices) THEN Ok(<<tw, acc>>)
    ELSE LET shift == slices[k][2]
             r == bfill_upsample(slices[k][1], <<tw[1] - shift, tw[2] - shift, tw[3]>>)
         IN  IF r.tag /= "ok" THEN r
             ELSE upsample_loop(slices, tw, k + 1, Append(acc, r.val))

RECURSIVE upsample_loop_unshifted(_, _, _, _)
upsample_loop_unshifted(slices, tw, k, acc) ==
    IF k > Len(slices) THEN Ok(<<tw, acc>>)
    ELSE LET r == bfill_upsample(slices[k][1], tw)
         IN  IF r.tag /= "ok" THEN r
             ELSE upsample_loop_unshifted(slices, tw, k + 1, Append(acc, r.val))

upsample_unshifted(slices) ==
    IF slices = <<>> THEN Raise("IndexError")
    ELSE upsample_loop_unshifted(slices, twindow(slices[1][1]), 1, <<>>)

upsample(slices) ==
    IF slices = <<>> THEN Raise("IndexError")
    ELSE upsample_loop(slices, twindow(slices[1][1]), 1, <<>>)

PredictionData(points, data_twindow, step) ==
    [points |-> points, data_twindow |-> data_twindow, step |-> step]

calculate_data_for_prediction(raw_slices) ==
    LET u == upsample(raw_slices) IN
    IF u.tag /= "ok" THEN u
    ELSE Ok(PredictionData(data_stats(u.val[2]), <<u.val[1][1], u.val[1][2]>>, u.val[1][3]))

------------------------------------------------------------------------------
(* PredictionInfo, PredictionData and their JSON texts. A text is the        *)
(* sequence of its tokens, <<key, value>>; a DataStat is written as the array *)
(* of its four fields, every point of the data as a token of its own.        *)

PredictionParameters(period, horizon) == [period |-> period, horizon |-> horizon]

PredictionInfo(name, time, range, cf, dsname, slice, params) ==
    [name |-> name, time |-> time, range |-> range, cf |-> cf, dsname |-> dsname,
     slice |-> slice, params |-> params]

InfoKeys == <<"name", "time", "range", "cf", "dsname", "slice", "params">>

\* info.json()
info_json(info) ==
    <<<<"name", info.name>>, <<"time", info.time>>, <<"range", info.range>>,
      <<"cf", info.cf>>, <<"dsname", info.dsname>>, <<"slice", info.slice>>,
      <<"params", <<info.params.period, info.params.horizon>>>>>>

\* PredictionInfo.parse_raw(text)
info_parse_raw(text) ==
    IF /\ Len(text) = Len(InfoKeys)
       /\ \A k \in 1..Len(InfoKeys) : text[k][1] = InfoKeys[k]
    THEN Ok(PredictionInfo(text[1][2], text[2][2], text[3][2], text[4][2], text[5][2],
                           text[6][2],
                           PredictionParameters(text[7][2][1], text[7][2][2])))
    ELSE Raise("ValidationError")

PointJson(p) == IF p = None THEN None ELSE <<p.average, p.min_, p.max_, p.stdev>>

PointParse(j) == IF j = None THEN None ELSE DataStat(j[1], j[2], j[3], j[4])

data_json_exclude_none(data) ==
    LET pts == SelectSeq(data.points, LAMBDA x : x /= None) IN
    [k \in 1..Len(pts) |-> <<"point", PointJson(pts[k])>>]
        \o <<<<"data_twindow", data.data_twindow>>, <<"step", data.step>>>>

\* data.json()
data_json(data) ==
    [k \in 1..Len(data.points) |-> <<"point", PointJson(data.points[k])>>]
        \o <<<<"data_twindow", data.data_twindow>>, <<"step", data.step>>>>

\* PredictionData.parse_raw(text)
data_parse_raw(text) ==
    LET n == Len(text) - 2 IN
    IF /\ n >= 0
       /\ \A k \in 1..n : text[k][1] = "point"
       /\ text[n + 1][1] = "data_twindow"
       /\ text[n + 2][1] = "step"
    THEN Ok(PredictionData([k \in 1..n |-> PointParse(text[k][2])],
                           text[n + 1][2], text[n + 2][2]))
    ELSE Raise("ValidationError")

------------------------------------------------------------------------------
(* the state outside a running operation *)

Procs == {1, 2}

Kinds == {"info", "data"}

\* the timegroups whose files the model follows
StoreGroups == {"tuesday", "everyday"}

FileNames == StoreGroups \X Kinds

NoFile == [exists |-> FALSE, text |-> <<>>]

NoHandle == [file |-> None, linked |-> FALSE, alone |-> FALSE]

NoCall == [op |-> "none", n |-> 0]

NoOp == [by |-> 0, kind |-> "none", text |-> <<>>, alone |-> FALSE]

\* a call made, not yet returned
Pending == [tag |-> "pending", val |-> <<>>]

NoEnv == [rrd |-> "none", debug |-> FALSE]

\* nothing on disk, nobody running, no call made
Quiet ==
    /\ dirExists = FALSE
    /\ files = [f \in FileNames |-> NoFile]
    /\ handle = [p \in Procs |-> NoHandle]
    /\ lastop = [f \in FileNames |-> NoOp]
    /\ pc = [p \in Procs |-> "idle"]
    /\ frame = [p \in Procs |-> NoCall]
    /\ obs = NoCall

storeVars == <<dirExists, files, handle, lastop, pc, frame, obs, env>>

------------------------------------------------------------------------------
(* SpecSeries: the functions of a time series, called with bounded inputs *)

\* longest series of samples
MaxLen == 3

\* largest step of a window, in seconds
MaxStep == 2

SampleValues == {None, Num(-2), Num(0), Num(3)}

SeqsUpTo(S, n) == UNION {[1..k -> S] : k \in 0..n}

ConsolidationNames ==
    {"max", "MAX", "min", "Min", "average", "AVERAGE", "median", "Median"}

OptNames == {None} \cup {Some(n) : n \in ConsolidationNames}

\* the series a window descriptor and its samples make: one value per step
\* the values of the series that are downsampled: a gap, a zero and a maximum
SeriesValues == {None, Num(0), Num(3)}

SeriesInputs ==
    {TimeSeries(v, <<0, Len(v) * st, st>>) :
        v \in SeqsUpTo(SeriesValues, MaxLen), st \in 1..MaxStep}

WindowInputs ==
    {<<0, e, st>> : e \in 0..(MaxLen * MaxStep), st \in 1..(MaxStep + 1)}

AggregationInputs ==
    {[op |-> "aggregation_functions", series |-> series, aggr |-> aggr] :
        series \in SeqsUpTo(SampleValues, MaxLen), aggr \in OptNames}

DownsampleInputs ==
    {[op |-> "downsample", self |-> self, twindow |-> tw, aggr |-> cf] :
        self \in SeriesInputs, tw \in WindowInputs, cf \in OptNames}

\* series whose k-th value is k, so that a value tells its index
RampInputs ==
    {TimeSeries([k \in 1..n |-> Num(k)], <<0, n * st, st>>) :
        n \in 0..MaxLen, st \in 1..MaxStep}

\* target windows that begin before, at or after the start of the series and end
\* before, at or after its end
TargetInputs ==
    {<<b, e, st>> : b \in (-1)..(MaxLen * MaxStep), e \in 0..(MaxLen * MaxStep + 1),
                    st \in 0..MaxStep}

BfillInputs ==
    {[op |-> "bfill_upsample", self |-> self, twindow |-> tw] :
        self \in RampInputs, tw \in TargetInputs}

\* windows that are empty, that end before they begin, that end inside a step,
\* and windows of step 0
TimestampsInputs ==
    {[op |-> "rrd_timestamps", time_window |-> <<b, e, st>>] :
        b \in (-1)..1, e \in (-2)..(MaxLen * MaxStep), st \in 0..(MaxStep + 1)}

HeadValues == {None, Num(0), Num(2), Rat(5, 2)}

\* data with the window at its head, whole or cut short, and data of any length
\* next to a window
ConstructorInputs ==
    {[op |-> "TimeSeries", data |-> h \o v, time_window |-> None, conversion |-> c] :
        h \in SeqsUpTo(HeadValues, 3), v \in SeqsUpTo({None, Num(3)}, MaxLen - 1),
        c \in ConversionNames}
    \cup
    {[op |-> "TimeSeries", data |-> v, time_window |-> <<0, e, st>>, conversion |-> c] :
        v \in SeqsUpTo({None, Num(3)}, MaxLen), e \in 0..MaxLen, st \in 1..MaxStep,
        c \in ConversionNames}

RrdTimestampsCall ==
    /\ call.op = "rrd_timestamps"
    /\ ret = Pending
    /\ ret' = Ok(rrd_timestamps(call.time_window))
    /\ UNCHANGED <<call, tzone, storeVars>>

TimeSeriesCall ==
    /\ call.op = "TimeSeries"
    /\ ret = Pending
    /\ ret' = TimeSeries_init(call.data, call.time_window, call.conversion)
    /\ UNCHANGED <<call, tzone, storeVars>>

BfillUpsampleCall ==
    /\ call.op = "bfill_upsample"
    /\ ret = Pending
    /\ ret' = bfill_upsample(call.self, call.twindow)
    /\ UNCHANGED <<call, tzone, storeVars>>

AggregationCall ==
    /\ call.op = "aggregation_functions"
    /\ ret = Pending
    /\ ret' = aggregation_functions(call.series, call.aggr)
    /\ UNCHANGED <<call, tzone, storeVars>>

DownsampleCall ==
    /\ call.op = "downsample"
    /\ ret = Pending
    /\ ret' = downsample(call.self, call.twindow, call.aggr)
    /\ UNCHANGED <<call, tzone, storeVars>>

InitSeries ==
    /\ Quiet
    /\ env = NoEnv
    /\ tzone = "UTC"
    /\ call \in AggregationInputs \cup DownsampleInputs \cup BfillInputs
                \cup TimestampsInputs \cup ConstructorInputs
    /\ ret = Pending

NextSeries ==
    \/ AggregationCall
    \/ DownsampleCall
    \/ BfillUpsampleCall
    \/ RrdTimestampsCall
    \/ TimeSeriesCall

SpecSeries == InitSeries /\ [][NextSeries]_vars

------------------------------------------------------------------------------
(* SpecAlias: the list objects of a series and of what its methods return.    *)
(* call.lists holds the list objects by identity, self.values and ret.val are *)
(* identities; call.given is the series as constructed.                       *)

\* the series with its list of values in place of the identity of the list
Deref(c) == [c.self EXCEPT !.values = c.lists[@]]

\* the series over a list object of its own, as __init__ builds it
Constructed(ts) ==
    [self |-> [ts EXCEPT !.values = 1], lists |-> <<ts.values>>, given |-> ts,
     changed |-> FALSE]

AliasInputs ==
    {[op |-> "bfill_upsample", twindow |-> tw, aggr |-> None] @@ Constructed(ts) :
        ts \in RampInputs, tw \in TargetInputs}
    \cup
    {[op |-> "downsample", twindow |-> tw, aggr |-> cf] @@ Constructed(ts) :
        ts \in RampInputs, tw \in WindowInputs, cf \in {None, Some("average")}}

\* bfill_upsample and downsample return self.values itself, not a copy, when the
\* target window is the series' own
returns_own_values(self, tw) == tw = twindow(self)

\* the method is called: it raises, returns the list of the series or a new list
ResampleCall ==
    /\ call.op \in {"bfill_upsample", "downsample"}
    /\ "lists" \in DOMAIN call
    /\ ret = Pending
    /\ LET self == Deref(call)
           r == IF call.op = "bfill_upsample" THEN bfill_upsample(self, call.twindow)
                ELSE downsample(self, call.twindow, call.aggr)
       IN  IF r.tag /= "ok" THEN ret' = r /\ call' = call
           ELSE IF returns_own_values(self, call.twindow)
           THEN ret' = Ok(call.self.values) /\ call' = call
           ELSE /\ call' = [call EXCEPT !.lists = Append(@, r.val)]
                /\ ret' = Ok(Len(call.lists) + 1)
    /\ UNCHANGED <<tzone, storeVars>>

\* the caller assigns to an element of the list it was returned
CallerChanges ==
    /\ "lists" \in DOMAIN call
    /\ ret.tag = "ok"
    /\ ~call.changed
    /\ \E k \in 1..Len(call.lists[ret.val]), v \in SampleValues :
          /\ v /= call.lists[ret.val][k]
          /\ call' = [call EXCEPT !.lists[ret.val][k] = v, !.changed = TRUE]
    /\ UNCHANGED <<ret, tzone, storeVars>>

InitAlias ==
    /\ Quiet
    /\ env = NoEnv
    /\ tzone = "UTC"
    /\ call \in AliasInputs
    /\ ret = Pending

NextAlias == ResampleCall \/ CallerChanges

SpecAlias == InitAlias /\ [][NextAlias]_vars

------------------------------------------------------------------------------
(* SpecPeriod: the partitioner, called with bounded inputs *)

\* longest horizon, in days
MaxHorizonDays == 15

\* now: Tuesdays around the two changes of Europe/Berlin's clock in 2023 and in
\* midsummer, at midday, just after and just before local midnight
Nows ==
    {1679990400, 1680042600, 1680039000, 1698746400, 1698706800, 1698791400,
     1686657600, 1679956200}

HorizonInputs == {d * 86400 + e : d \in 0..MaxHorizonDays, e \in {0, 1}}

TimegroupInputs ==
    {weekday_ids[k] : k \in 1..7} \cup {"28", "31", "17", "everyday", "everyhour"}

TimeSlicesInputs ==
    {[op |-> "_time_slices", timestamp |-> timestamp, horizon |-> horizon,
      period |-> period, timegroup |-> timegroup] :
        timestamp \in Nows, horizon \in HorizonInputs, period \in PeriodNames,
        timegroup \in TimegroupInputs}

TimeSlicesCall ==
    /\ call.op = "_time_slices"
    /\ ret = Pending
    /\ ret' = Ok(time_slices(call.timestamp, call.horizon,
                             PREDICTION_PERIODS[call.period], call.timegroup))
    /\ UNCHANGED <<call, tzone, storeVars>>

\* t: the times of Nows, and every half hour of the two days around each of
\* the two changes of Europe/Berlin's clock in 2023
Timestamps ==
    Nows \cup {c + k * 1800 + e : c \in {1679792400, 1698541200},
                                 k \in -48..48, e \in {0, 1, 1799}}

TimegroupRelativeTimeInputs ==
    {[op |-> "get_timegroup_relative_time", t |-> t, period |-> period] :
        t \in Timestamps, period \in PeriodNames}

TimegroupRelativeTimeCall ==
    /\ call.op = "get_timegroup_relative_time"
    /\ ret = Pending
    /\ ret' = Ok(get_timegroup_relative_time(call.t, PREDICTION_PERIODS[call.period]))
    /\ UNCHANGED <<call, tzone, storeVars>>

InitPeriod ==
    /\ Quiet
    /\ env = NoEnv
    /\ tzone \in TimeZones
    /\ call \in TimeSlicesInputs \cup TimegroupRelativeTimeInputs
    /\ ret = Pending

NextPeriod == TimeSlicesCall \/ TimegroupRelativeTimeCall

SpecPeriod == InitPeriod /\ [][NextPeriod]_vars

------------------------------------------------------------------------------
(* SpecStats: the statistical summary, called with bounded inputs *)

\* most historical windows
MaxSlices == 2

\* most timepoints of a window
MaxPoints == 2

StatValues == {None, Num(2), Num(4)}

\* three aligned windows of three hourly values
AlignedExample ==
    <<<<Num(10), Num(10), Num(12)>>, <<Num(10), Num(12), Num(12)>>,
      <<Num(12), Num(12), Num(12)>>>>

\* the slices a, and a with its last slice one value short
WithShortLast(a) ==
    {a} \cup {[a EXCEPT ![Len(a)] = SubSeq(@, 1, Len(@) - 1)] : x \in {1} \cap 1..Len(a)}

SlicesInputs ==
    {AlignedExample} \cup
    UNION {WithShortLast(a) : a \in UNION {[1..n -> [1..len -> StatValues]] :
                                              n \in 0..MaxSlices, len \in 0..MaxPoints}}

DataStatsInputs == {[op |-> "_data_stats", slices |-> a] : a \in SlicesInputs}

DataStatsCall ==
    /\ call.op = "_data_stats"
    /\ ret = Pending
    /\ ret' = Ok(data_stats(call.slices))
    /\ UNCHANGED <<call, tzone, storeVars>>

InitStats ==
    /\ Quiet
    /\ env = NoEnv
    /\ tzone = "UTC"
    /\ call \in DataStatsInputs
    /\ ret = Pending

NextStats == DataStatsCall

SpecStats == InitStats /\ [][NextStats]_vars

------------------------------------------------------------------------------
(* Properties of aggregation_functions and downsample (SpecSeries) *)

Returned == ret /= Pending

NonNone(series) == {i \in 1..Len(series) : series[i] /= None}

\* the sum of the integer samples series[i], i in S
RECURSIVE IntSum(_, _)
IntSum(S, series) ==
    IF S = {} THEN 0
    ELSE LET i == CHOOSE j \in S : TRUE IN series[i][1] + IntSum(S \ {i}, series)

UnknownName(aggr) == aggr /= None /\ aggr[1] \in {"median", "Median"}

\* C6 as stated: a consolidation function name other than average, max or min
\* (in any case) raises the invalid-aggregation error (ValueError) for every
\* input series, in aggregation_functions and in downsample.
C6_UnknownNameAlwaysRaises ==
    (Returned /\ call.op \in {"aggregation_functions", "downsample"}
        /\ UnknownName(call.aggr))
    => ret.tag = "ValueError"

\* C6, amended: with an unknown name aggregation_functions raises the
\* invalid-aggregation error exactly when the series holds a non-None value and
\* returns None for an all-None or empty series; downsample returns the series'
\* own values for its own window and otherwise raises or returns None values
\* only. No value computed by another function is ever returned.
C6_UnknownNameRaisesOnValues ==
    (Returned /\ call.op \in {"aggregation_functions", "downsample"}
        /\ UnknownName(call.aggr)) =>
        /\ call.op = "aggregation_functions" =>
              IF NonNone(call.series) = {}
              THEN ret = Ok(None)
              ELSE ret.tag = "ValueError"
        /\ (call.op = "downsample" /\ ret.tag = "ok") =>
              IF call.twindow = twindow(call.self)
              THEN ret.val = call.self.values
              ELSE \A k \in 1..Len(ret.val) : ret.val[k] = None
        /\ call.op = "downsample" => ret.tag \in {"ok", "ValueError", "IndexError"}

C6_Witness ==
    /\ Returned
    /\ call.op = "downsample"
    /\ UnknownName(call.aggr)
    /\ call.twindow /= twindow(call.self)
    /\ NonNone(call.self.values) /= {}
    /\ ret.tag = "ValueError"

\* C7: aggregation_functions yields None for a series without a non-None value
\* (the empty one included) whatever the name, and for a series with a non-None
\* value the mean, the maximum or the minimum of the non-None values alone; a
\* missing name means max.
C7_AggregatesNonNoneOnly ==
    (Returned /\ call.op = "aggregation_functions") =>
        LET s == call.series
            nn == NonNone(s)
            a == call.aggr
        IN  /\ nn = {} => ret = Ok(None)
            /\ (nn /= {} /\ a \in {None, Some("max"), Some("MAX")}) =>
                  /\ ret.tag = "ok"
                  /\ \E i \in nn : s[i] = ret.val
                  /\ \A i \in nn : ~RatLess(ret.val, s[i])
            /\ (nn /= {} /\ a \in {Some("min"), Some("Min")}) =>
                  /\ ret.tag = "ok"
                  /\ \E i \in nn : s[i] = ret.val
                  /\ \A i \in nn : ~RatLess(s[i], ret.val)
            /\ (nn /= {} /\ a \in {Some("average"), Some("AVERAGE")}) =>
                  /\ ret.tag = "ok"
                  /\ ret.val /= None
                  /\ ret.val[1] * Cardinality(nn) = ret.val[2] * IntSum(nn, s)

\* a mean over a series that holds None, a zero and another value
C7_Witness ==
    /\ Returned
    /\ call.op = "aggregation_functions"
    /\ call.aggr = Some("AVERAGE")
    /\ \E i, j, k \in 1..Len(call.series) :
          call.series[i] = None /\ call.series[j] = Num(0) /\ call.series[k] = Num(3)
    /\ ret = Ok(<<3, 2>>)

\* C14: downsample onto the series' own window returns the values of the series
\* unchanged, whatever the series and the consolidation function, and so does
\* downsample of the series these values make on that window.
C14_OwnWindowIsNoOp ==
    (Returned /\ call.op = "downsample" /\ call.twindow = twindow(call.self)) =>
        /\ ret = Ok(call.self.values)
        /\ downsample(TimeSeries(ret.val, call.twindow), call.twindow, call.aggr) = ret

\* an unknown function, a None among the values
C14_Witness ==
    /\ Returned
    /\ call.op = "downsample"
    /\ call.twindow = twindow(call.self)
    /\ call.aggr = Some("median")
    /\ Len(call.self.values) = MaxLen
    /\ \E k \in 1..MaxLen : call.self.values[k] = None
    /\ \E k \in 1..MaxLen : call.self.values[k] = Num(3)
    /\ ret = Ok(call.self.values)

\* the target window lies within the window of the series
Covered(self, tw) == self.start <= tw[1] /\ tw[2] <= self.end

\* the first value of the series whose bucket ends at t or later
FirstEndingFrom(self, t) ==
    LET ends == rrd_timestamps(twindow(self))
        j == CHOOSE i \in 1..Len(ends) :
                /\ ends[i] >= t
                /\ \A h \in 1..(i - 1) : ends[h] < t
    IN  self.values[j]

\* the target window is a whole number of steps long, of a step not larger than
\* the step of the series
FinerGrid(self, tw) ==
    /\ 1 <= tw[3] /\ tw[3] <= self.step
    /\ tw[1] <= tw[2] /\ (tw[2] - tw[1]) % tw[3] = 0

\* C16: for a target window of a finer grid that the series covers,
\* bfill_upsample returns one value per timestamp of the target grid, the first
\* value of the series whose bucket ends at the target timestamp or later; the
\* timestamp of a target slot is read as the begin of the slot or as its end,
\* whichever agrees with the result.
C16_BackfillsEveryCoveredSlot ==
    (Returned /\ call.op = "bfill_upsample" /\ FinerGrid(call.self, call.twindow)
        /\ Covered(call.self, call.twindow)) =>
        LET begins == PyRange(call.twindow[1], call.twindow[2], call.twindow[3])
            ends == rrd_timestamps(call.twindow)
        IN  /\ ret.tag = "ok"
            /\ Len(ret.val) = Len(ends)
            /\ \A k \in 1..Len(ret.val) :
                  \/ ret.val[k] = FirstEndingFrom(call.self, begins[k])
                  \/ ret.val[k] = FirstEndingFrom(call.self, ends[k])

\* the target grid has a slot that begins at the end of the series or later
SlotBeyond(self, tw) ==
    \E k \in 1..Len(PyRange(tw[1], tw[2], tw[3])) :
        PyRange(tw[1], tw[2], tw[3])[k] >= self.end

\* C17 as stated: bfill_upsample with a target window that begins before the
\* series or ends after it always fails with an IndexError.
C17_UncoveredAlwaysOverruns ==
    (Returned /\ call.op = "bfill_upsample" /\ call.twindow[3] >= 1
        /\ ~Covered(call.self, call.twindow)) =>
        ret.tag = "IndexError"

\* C17, amended: for a series with one value per step of its window,
\* bfill_upsample fails with an IndexError when the target window begins at or
\* before the series, has a step not larger than the series' and a slot that
\* begins at the end of the series or later; a target window that begins before
\* a non-empty series and ends within it returns a sequence, the first value of
\* the series first.
C17_OverrunsPastTheEnd ==
    (Returned /\ call.op = "bfill_upsample" /\ call.twindow[3] >= 1) =>
        LET self == call.self
            tw == call.twindow
        IN  /\ (tw[1] <= self.start /\ tw[3] <= self.step /\ SlotBeyond(self, tw)) =>
                  ret.tag = "IndexError"
            /\ (tw[1] < self.start /\ tw[2] <= self.end /\ self.values /= <<>>) =>
                  /\ ret.tag = "ok"
                  /\ Len(ret.val) = Len(rrd_timestamps(tw))
                  /\ ret.val /= <<>> => ret.val[1] = self.values[1]
            /\ ret.tag \in {"ok", "IndexError"}

\* a target one slot longer than the series at its end overruns
C17_Witness ==
    /\ Returned
    /\ call.op = "bfill_upsample"
    /\ Len(call.self.values) = MaxLen
    /\ call.twindow = <<call.self.start, call.self.end + 1, 1>>
    /\ ret.tag = "IndexError"

KnownName(aggr) == aggr = None \/ Lower(aggr[1]) \in {"max", "min", "average"}

\* the values of the series whose timestamps lie after lo and not after hi
ValuesWithin(self, lo, hi) ==
    LET pairs == SelectSeq(time_data_pairs(self), LAMBDA p : lo < p[1] /\ p[1] <= hi)
    IN  [k \in 1..Len(pairs) |-> pairs[k][2]]

\* the target window begins where the series begins, is not empty and its step
\* is not smaller than the step of the series
CoarserGrid(self, tw) == tw[1] = self.start /\ tw[1] < tw[2] /\ self.step <= tw[3]

\* C18: for a target window other than the series' own, of a grid not finer than
\* the series', downsample returns one value per target bucket: cf of the values
\* of the series whose timestamps lie after the previous target boundary (the
\* begin of the target window for the first) and not after the bucket's own,
\* None for a bucket without such values.
C18_OneValuePerTargetBucket ==
    (Returned /\ call.op = "downsample" /\ call.twindow /= twindow(call.self)
        /\ CoarserGrid(call.self, call.twindow) /\ KnownName(call.aggr)) =>
        LET bounds == <<call.twindow[1]>> \o rrd_timestamps(call.twindow) IN
        /\ ret.tag = "ok"
        /\ Len(ret.val) = Len(bounds) - 1
        /\ \A j \in 1..Len(ret.val) :
              Ok(ret.val[j]) = aggregation_functions(
                                  ValuesWithin(call.self, bounds[j], bounds[j + 1]),
                                  call.aggr)

\* C15: a TimeSeries is as it was constructed in every state: its start, end,
\* step and values are unchanged after bfill_upsample or downsample for any
\* target window, and also after a change the caller makes to the sequence the
\* method returned.
C15_SeriesNeverChanges ==
    "lists" \in DOMAIN call => Deref(call) = call.given

------------------------------------------------------------------------------
(* Properties of the partitioner (SpecPeriod) *)

\* C10: _time_slices returns the windows of exactly the begins now, now - width,
\* now - 2*width, ... later than now - horizon whose timegroup is the target,
\* each one bucket width long, most recent first and none twice.
C10_SlicesAreTheMatchingBegins ==
    (Returned /\ call.op = "_time_slices") =>
        LET pi == PREDICTION_PERIODS[call.period]
            w == pi.slice
            res == ret.val
            begins == {b \in {call.timestamp - j * w : j \in 0..(call.horizon \div w + 1)} :
                          b > call.timestamp - call.horizon}
            matching == {b \in begins : groupby(pi, b)[1] = call.timegroup}
            Win(b) == <<b - groupby(pi, b)[2], b - groupby(pi, b)[2] + w>>
        IN  /\ {res[k] : k \in 1..Len(res)} = {Win(b) : b \in matching}
            /\ Len(res) = Cardinality(matching)
            /\ \A k \in 1..Len(res) : res[k][2] - res[k][1] = w
            /\ \A k \in 1..(Len(res) - 1) : res[k][1] > res[k + 1][1]

\* three Tuesdays, the clock changed between the last two
C10_Witness ==
    /\ Returned
    /\ call.op = "_time_slices"
    /\ call.period = "wday"
    /\ call.timegroup = "tuesday"
    /\ Len(ret.val) = 3
    /\ ret.val[1][1] - ret.val[2][1] = 7 * 86400 - 3600

\* _time_slices was called for period wday and timegroup tuesday on a Tuesday,
\* with a horizon of 14 days
TuesdayFortnight ==
    /\ Returned
    /\ call.op = "_time_slices"
    /\ call.period = "wday"
    /\ call.timegroup = "tuesday"
    /\ call.horizon = 14 * 86400
    /\ group_by_wday(call.timestamp)[1] = "tuesday"

\* the clock was not changed in the 14 days before now
SameOffset(now) == \A k \in 0..13 : timezone_at(now - k * 86400) = timezone_at(now)

Gaps(res) == {res[k][1] - res[k + 1][1] : k \in 1..(Len(res) - 1)}

\* C11 as stated: for period wday, a now on a Tuesday and a horizon of 14 days
\* _time_slices yields exactly 2 windows, both Tuesdays before now's own day,
\* 604800 seconds apart.
C11_TwoPriorTuesdays ==
    TuesdayFortnight =>
        /\ Len(ret.val) = 2
        /\ \A k \in 1..Len(ret.val) : ret.val[k][2] <= call.timestamp
        /\ Gaps(ret.val) = {604800}

\* C11, amended: the first window is now's own Tuesday, the others are earlier
\* Tuesdays; when the clock was not changed in the 14 days there are exactly 2
\* windows, 604800 seconds apart; when it was changed there are 2 or 3, and the
\* gap across the change differs from 604800 by the hour of the change.
C11_TodayAndEarlierTuesdays ==
    TuesdayFortnight =>
        LET res == ret.val
            now == call.timestamp
        IN  /\ Len(res) >= 1
            /\ res[1][1] <= now /\ now < res[1][2]
            /\ \A k \in 1..Len(res) :
                  /\ res[k][2] - res[k][1] = 86400
                  /\ group_by_wday(res[k][1]) = <<"tuesday", 0>>
            /\ SameOffset(now) => (Len(res) = 2 /\ Gaps(res) = {604800})
            /\ Len(res) \in {2, 3}
            /\ Gaps(res) \subseteq {604800 - 3600, 604800, 604800 + 3600}

\* no change of the clock: today's Tuesday and the one a week before
C11_Witness ==
    /\ TuesdayFortnight
    /\ SameOffset(call.timestamp)
    /\ Len(ret.val) = 2
    /\ ret.val[1][1] <= call.timestamp
    /\ ret.val[1][1] - ret.val[2][1] = 604800

------------------------------------------------------------------------------
(* Properties of the statistical summary (SpecStats) *)

\* the k-th values of the slices, in order
KthValues(slices, k) == [j \in 1..Len(slices) |-> slices[j][k]]

\* the sum of the squares of the integer samples series[i], i in S
RECURSIVE IntSquares(_, _)
IntSquares(S, series) ==
    IF S = {} THEN 0
    ELSE LET i == CHOOSE j \in S : TRUE
         IN  series[i][1] * series[i][1] + IntSquares(S \ {i}, series)

ShortestLen(slices) ==
    IF slices = <<>> THEN 0
    ELSE CHOOSE m \in 0..(MaxPoints + 2) :
            /\ \A j \in 1..Len(slices) : m <= Len(slices[j])
            /\ \E j \in 1..Len(slices) : m = Len(slices[j])

\* C12: _data_stats yields one point per aligned timepoint; the point is None
\* exactly when every window's value there is None, and otherwise its average,
\* min_ and max_ are the mean, the minimum and the maximum of the non-None
\* values there; the aligned windows [10,10,12], [10,12,12], [12,12,12] give
\* min 10,10,12, max 12,12,12 and averages 32/3, 34/3, 36/3.
C12_PointsSummarizeNonNone ==
    (Returned /\ call.op = "_data_stats") =>
        LET res == ret.val IN
        /\ Len(res) = ShortestLen(call.slices)
        /\ \A k \in 1..Len(res) :
              LET col == KthValues(call.slices, k)
                  nn == NonNone(col)
              IN  /\ res[k] = None <=> nn = {}
                  /\ nn /= {} =>
                        /\ res[k].average[1] * Cardinality(nn)
                              = res[k].average[2] * IntSum(nn, col)
                        /\ \E i \in nn : col[i] = res[k].min_
                        /\ \A i \in nn : ~RatLess(col[i], res[k].min_)
                        /\ \E i \in nn : col[i] = res[k].max_
                        /\ \A i \in nn : ~RatLess(res[k].max_, col[i])
        /\ call.slices = AlignedExample =>
              /\ [k \in 1..3 |-> res[k].min_] = <<Num(10), Num(10), Num(12)>>
              /\ [k \in 1..3 |-> res[k].max_] = <<Num(12), Num(12), Num(12)>>
              /\ [k \in 1..3 |-> res[k].average] = <<<<32, 3>>, <<34, 3>>, <<12, 1>>>>

\* a timepoint where one window has no value and the other has 4, next to one
\* where no window has a value
C12_Witness ==
    /\ Returned
    /\ call.op = "_data_stats"
    /\ Len(call.slices) = 2
    /\ \E k, m \in 1..Len(ret.val) :
          /\ ret.val[m] = None
          /\ \E j \in 1..2 : call.slices[j][k] = None
          /\ ret.val[k] /= None
          /\ ret.val[k].average = Num(4)
          /\ ret.val[k].min_ = Num(4)
          /\ ret.val[k].max_ = Num(4)

\* C13: the stdev of a timepoint is None exactly when the timepoint has one
\* non-None sample; with n >= 2 samples it is the square root of
\* |sum of squares - n * average^2| / (n - 1), which is not negative; for the
\* samples 2 and 4 the radicand is 2.
C13_StdevOfSamples ==
    (Returned /\ call.op = "_data_stats") =>
        \A k \in 1..Len(ret.val) :
            LET col == KthValues(call.slices, k)
                nn == NonNone(col)
                n == Cardinality(nn)
                sd == ret.val[k].stdev
            IN  ret.val[k] /= None =>
                  /\ sd = None <=> n = 1
                  /\ n >= 2 =>
                        /\ sd[1] = "sqrt"
                        /\ sd[2] >= 0 /\ sd[3] > 0
                        /\ sd[2] * n * (n - 1)
                              = sd[3] * Abs(n * IntSquares(nn, col)
                                            - IntSum(nn, col) * IntSum(nn, col))
                  /\ SelectSeq(col, LAMBDA x : x /= None) = <<Num(2), Num(4)>> =>
                        sd = sqrt(Num(2))

\* the samples 2 and 4 at one timepoint, a single sample at another
C13_Witness ==
    /\ Returned
    /\ call.op = "_data_stats"
    /\ \E k, m \in 1..Len(ret.val) :
          /\ SelectSeq(KthValues(call.slices, k), LAMBDA x : x /= None) = <<Num(2), Num(4)>>
          /\ ret.val[k].stdev = sqrt(Num(2))
          /\ Cardinality(NonNone(KthValues(call.slices, m))) = 1
          /\ ret.val[m] /= None
          /\ ret.val[m].stdev = None

------------------------------------------------------------------------------
(* the data source: livestatus.get_rrd_data, as the environment behaves *)

\* data older than this (Monday 2023-03-27 00:00 UTC) is what an rrd treats as old
OldBefore == 19443 * 86400

RRDBehaviours ==
    {"fine",        \* every window at a third of its length per sample
     "coarse_old",  \* old windows consolidated to one sample
     "gaps",        \* samples missing
     "short_old",   \* old windows end one step early
     "notfound_old",\* MKLivestatusNotFoundError for old windows
     "no_response"} \* None: the core does not answer

Envs ==
    {[rrd |-> b, debug |-> FALSE] : b \in RRDBehaviours}
        \cup {[rrd |-> "notfound_old", debug |-> TRUE]}

\* the samples of the window starting at fromtime
History(fromtime) ==
    LET d == (fromtime \div 3600) % 3 IN
    CASE d = 0 -> <<Num(10), Num(10), Num(12)>>
      [] d = 1 -> <<Num(10), Num(12), Num(12)>>
      [] d = 2 -> <<Num(12), Num(12), Num(12)>>

RRDResponse(start, stop, step, values) ==
    [window |-> [start |-> start, stop |-> stop, step |-> step], values |-> values]

livestatus_get_rrd_data(e, fromtime, untiltime) ==
    LET old == fromtime < OldBefore
        step == (untiltime - fromtime) \div 3
        h == History(fromtime)
    IN  CASE e.rrd = "fine" -> Ok(RRDResponse(fromtime, untiltime, step, h))
          [] e.rrd = "coarse_old" ->
                IF old THEN Ok(RRDResponse(fromtime, untiltime, 3 * step, <<h[2]>>))
                ELSE Ok(RRDResponse(fromtime, untiltime, step, h))
          [] e.rrd = "gaps" ->
                IF old THEN Ok(RRDResponse(fromtime, untiltime, step, <<None, h[2], None>>))
                ELSE Ok(RRDResponse(fromtime, untiltime, step, <<None, None, Num(0)>>))
          [] e.rrd = "short_old" ->
                IF old THEN Ok(RRDResponse(fromtime, untiltime - step, step, <<h[1], h[2]>>))
                ELSE Ok(RRDResponse(fromtime, untiltime, step, h))
          [] e.rrd = "notfound_old" ->
                IF old THEN Raise("MKLivestatusNotFoundError")
                ELSE Ok(RRDResponse(fromtime, untiltime, step, h))
          [] e.rrd = "no_response" -> Ok(None)

get_rrd_data_failure_as_gap(e, cf, fromtime, untiltime) ==
    LET response == livestatus_get_rrd_data(e, fromtime, untiltime) IN
    IF response.tag = "MKLivestatusNotFoundError" \/ response = Ok(None)
    THEN Ok(RRDResponse(fromtime, untiltime, untiltime - fromtime, <<None>>))
    ELSE response

get_rrd_data_with_mk_general_exception(e, cf, fromtime, untiltime) ==
    LET response == livestatus_get_rrd_data(e, fromtime, untiltime) IN
    IF response.tag = "MKLivestatusNotFoundError"
    THEN (IF e.debug THEN response ELSE Raise("MKGeneralException"))
    ELSE IF response = Ok(None) THEN Raise("MKGeneralException")
    ELSE response

------------------------------------------------------------------------------
(* the file system under PredictionStore._dir *)

\* self._dir / Path(timegroup).with_suffix(DATA_FILE_SUFFIX)
data_file(timegroup) == <<timegroup, "data">>

info_file_data_suffix(timegroup) == <<timegroup, "data">>

\* self._dir / Path(timegroup).with_suffix(INFO_FILE_SUFFIX)
info_file(timegroup) == <<timegroup, "info">>

\* what open(mode="w") leaves of a file: it exists and is empty
open_append(old) == [exists |-> TRUE, text |-> old.text]

open_w(old) == [exists |-> TRUE, text |-> <<>>]

\* a write at offset 0 of a file holding old
Overlay(old, new) == new \o SubSeq(old, Len(new) + 1, Len(old))

\* Path.mkdir(exist_ok=...) on a directory that exists or not
PathMkdir(exists, exist_ok) ==
    IF exists /\ ~exist_ok THEN Raise("FileExistsError") ELSE Ok(None)

save_mkdir_strict(exists) == PathMkdir(exists, FALSE)

\* self._dir.mkdir(exist_ok=True, parents=True)
save_mkdir(exists) == PathMkdir(exists, TRUE)

\* Path.read_text(), then parse_raw
get_info(timegroup) ==
    LET f == files[info_file(timegroup)] IN
    IF ~f.exists THEN Ok(None) ELSE info_parse_raw(f.text)

get_data_except_all(timegroup) ==
    LET f == files[data_file(timegroup)]
        r == data_parse_raw(f.text)
    IN  IF ~f.exists \/ r.tag /= "ok" THEN Ok(None) ELSE r

get_data(timegroup) ==
    LET f == files[data_file(timegroup)] IN
    IF ~f.exists THEN Ok(None) ELSE data_parse_raw(f.text)

------------------------------------------------------------------------------
(* PredictionStore and compute_prediction, one step per file system call or    *)
(* fetch. frame[p].log lists the calls p's operation has made on the store and *)
(* on the data source, frame[p].env is the environment it was called in; obs   *)
(* is forgotten at every change of the store.                                  *)

Frame(op, n, info, now, period_info, timegroup, data, prev) ==
    [op |-> op, n |-> n, info |-> info, now |-> now, period_info |-> period_info,
     timegroup |-> timegroup, data |-> data,
     env |-> env, time_windows |-> <<>>, responses |-> <<>>, result |-> Pending,
     log |-> <<>>, prev |-> prev]

Completed(p) == pc[p] = "idle" /\ frame[p].op /= "none"

Logged(p, event) == [frame EXCEPT ![p].log = Append(@, event)]

\* p's operation ends: it returns or raises result
Finish(fr, result) == [fr EXCEPT !.result = result]

\* what the invocation that just ended and the store it left look like to the
\* next invocation with the same arguments
Summary(p) ==
    [op |-> frame[p].op, n |-> 0, env |-> frame[p].env, result |-> frame[p].result,
     files |-> files, dirExists |-> dirExists]

\* p calls compute_prediction; it is p's n-th call where calls are counted
CallComputePrediction(p, n, info, now, period_info) ==
    /\ pc[p] = "idle"
    /\ pc' = [pc EXCEPT ![p] = "unlink_data"]
    /\ frame' = [frame EXCEPT ![p] =
          Frame("compute_prediction", n, info, now, period_info, info.name, None,
                IF /\ frame[p].op = "compute_prediction"
                   /\ frame[p].info = info
                   /\ frame[p].now = now
                   /\ frame[p].period_info = period_info
                THEN Summary(p) ELSE NoCall)]
    /\ UNCHANGED <<tzone, dirExists, files, handle, lastop, obs, env, call, ret>>

CallSavePrediction(p, n, info, data) ==
    /\ pc[p] = "idle"
    /\ pc' = [pc EXCEPT ![p] = "mkdir"]
    /\ frame' = [frame EXCEPT ![p] =
          Frame("save_prediction", n, info, 0, None, info.name, data, NoCall)]
    /\ UNCHANGED <<tzone, dirExists, files, handle, lastop, obs, env, call, ret>>

CallRemovePrediction(p, n, timegroup) ==
    /\ pc[p] = "idle"
    /\ pc' = [pc EXCEPT ![p] = "unlink_data"]
    /\ frame' = [frame EXCEPT ![p] =
          Frame("remove_prediction", n, None, 0, None, timegroup, None, NoCall)]
    /\ UNCHANGED <<tzone, dirExists, files, handle, lastop, obs, env, call, ret>>

\* Path.unlink(missing_ok=True): the entry goes; whoever has the file open keeps
\* writing to a file no name leads to
Unlink(p, f) ==
    /\ files' = [files EXCEPT ![f] = NoFile]
    /\ lastop' = [lastop EXCEPT ![f] =
          [by |-> p, kind |-> "unlink", text |-> <<>>, alone |-> TRUE]]
    /\ handle' = [q \in Procs |->
          IF handle[q].file = f
          THEN [handle[q] EXCEPT !.linked = FALSE, !.alone = FALSE]
          ELSE handle[q]]
    /\ obs' = NoCall

UnlinkData_info_first(p) ==
    /\ pc[p] = "unlink_data"
    /\ Unlink(p, info_file(frame[p].timegroup))
    /\ pc' = [pc EXCEPT ![p] = "unlink_info"]
    /\ frame' = Logged(p, <<"unlink", "data", files[info_file(frame[p].timegroup)].exists>>)
    /\ UNCHANGED <<tzone, dirExists, env, call, ret>>

\* remove_prediction: self._data_file(timegroup).unlink(missing_ok=True)
UnlinkData(p) ==
    /\ pc[p] = "unlink_data"
    /\ Unlink(p, data_file(frame[p].timegroup))
    /\ pc' = [pc EXCEPT ![p] = "unlink_info"]
    /\ frame' = Logged(p, <<"unlink", "data", files[data_file(frame[p].timegroup)].exists>>)
    /\ UNCHANGED <<tzone, dirExists, env, call, ret>>

UnlinkInfo_kept(p) ==
    /\ pc[p] = "unlink_info"
    /\ obs' = NoCall
    /\ IF frame[p].op = "compute_prediction"
       THEN /\ pc' = [pc EXCEPT ![p] = "time_slices"]
            /\ frame' = Logged(p, <<"unlink", "info", files[info_file(frame[p].timegroup)].exists>>)
       ELSE /\ pc' = [pc EXCEPT ![p] = "idle"]
            /\ frame' = [frame EXCEPT ![p] =
                  Finish([@ EXCEPT !.log = Append(@, <<"unlink", "info",
                              files[info_file(frame[p].timegroup)].exists>>)], Ok(None))]
    /\ UNCHANGED <<tzone, dirExists, files, handle, lastop, env, call, ret>>

\* remove_prediction: self._info_file(timegroup).unlink(missing_ok=True), and the
\* return to its caller
UnlinkInfo(p) ==
    /\ pc[p] = "unlink_info"
    /\ Unlink(p, info_file(frame[p].timegroup))
    /\ IF frame[p].op = "compute_prediction"
       THEN /\ pc' = [pc EXCEPT ![p] = "time_slices"]
            /\ frame' = Logged(p, <<"unlink", "info", files[info_file(frame[p].timegroup)].exists>>)
       ELSE /\ pc' = [pc EXCEPT ![p] = "idle"]
            /\ frame' = [frame EXCEPT ![p] =
                  Finish([@ EXCEPT !.log = Append(@, <<"unlink", "info",
                              files[info_file(frame[p].timegroup)].exists>>)], Ok(None))]
    /\ UNCHANGED <<tzone, dirExists, env, call, ret>>

\* compute_prediction: time_windows = _time_slices(...); from_time = time_windows[0][0]
TimeSlices(p) ==
    /\ pc[p] = "time_slices"
    /\ LET info == frame[p].info
           tw == time_slices(frame[p].now, info.params.horizon * 86400,
                             frame[p].period_info, info.name)
           fr == [frame[p] EXCEPT !.time_windows = tw,
                                  !.log = Append(@, <<"time_slices", Len(tw)>>)]
       IN  IF tw = <<>>
           THEN /\ pc' = [pc EXCEPT ![p] = "idle"]
                /\ frame' = [frame EXCEPT ![p] = Finish(fr, Raise("IndexError"))]
           ELSE /\ pc' = [pc EXCEPT ![p] = "fetch"]
                /\ frame' = [frame EXCEPT ![p] = fr]
    /\ UNCHANGED <<tzone, dirExists, files, handle, lastop, obs, env, call, ret>>

\* compute_prediction: one turn of the comprehension that builds rrd_responses
Fetch(p) ==
    /\ pc[p] = "fetch"
    /\ LET info == frame[p].info
           k == Len(frame[p].responses) + 1
           w == frame[p].time_windows[k]
           from_time == frame[p].time_windows[1][1]
           r == get_rrd_data_with_mk_general_exception(env, info.cf, w[1], w[2])
           fr == [frame[p] EXCEPT !.log = Append(@, <<"fetch", w[1]>>)]
       IN  IF r.tag /= "ok"
           THEN /\ pc' = [pc EXCEPT ![p] = "idle"]
                /\ frame' = [frame EXCEPT ![p] = Finish(fr, r)]
           ELSE /\ pc' = [pc EXCEPT ![p] =
                      IF k = Len(frame[p].time_windows) THEN "calculate" ELSE "fetch"]
                /\ frame' = [frame EXCEPT ![p] =
                      [fr EXCEPT !.responses = Append(@, <<r.val, from_time - w[1]>>)]]
    /\ UNCHANGED <<tzone, dirExists, files, handle, lastop, obs, env, call, ret>>

\* compute_prediction: raw_slices and _calculate_data_for_prediction(raw_slices)
Calculate(p) ==
    /\ pc[p] = "calculate"
    /\ LET rs == frame[p].responses
           raw_slices == [k \in 1..Len(rs) |->
               <<TimeSeries(rs[k][1].values,
                            <<rs[k][1].window.start, rs[k][1].window.stop,
                              rs[k][1].window.step>>),
                 rs[k][2]>>]
           d == calculate_data_for_prediction(raw_slices)
           fr == [frame[p] EXCEPT !.log = Append(@, <<"calculate", Len(rs)>>)]
       IN  IF d.tag /= "ok"
           THEN /\ pc' = [pc EXCEPT ![p] = "idle"]
                /\ frame' = [frame EXCEPT ![p] = Finish(fr, d)]
           ELSE /\ pc' = [pc EXCEPT ![p] = "mkdir"]
                /\ frame' = [frame EXCEPT ![p] = [fr EXCEPT !.data = d.val]]
    /\ UNCHANGED <<tzone, dirExists, files, handle, lastop, obs, env, call, ret>>

\* save_prediction: self._dir.mkdir(exist_ok=True, parents=True)
Mkdir(p) ==
    /\ pc[p] = "mkdir"
    /\ LET r == save_mkdir(dirExists)
           fr == [frame[p] EXCEPT !.log = Append(@, <<"mkdir", "dir">>)]
       IN  IF r.tag /= "ok"
           THEN /\ pc' = [pc EXCEPT ![p] = "idle"]
                /\ frame' = [frame EXCEPT ![p] = Finish(fr, r)]
                /\ UNCHANGED dirExists
           ELSE /\ pc' = [pc EXCEPT ![p] = "open_info"]
                /\ frame' = [frame EXCEPT ![p] = fr]
                /\ dirExists' = TRUE
    /\ UNCHANGED <<tzone, files, handle, lastop, obs, env, call, ret>>

\* Path.write_text, first half: open(mode="w") creates or truncates the file
OpenFile(p, f) ==
    /\ files' = [files EXCEPT ![f] = open_w(@)]
    /\ handle' = [q \in Procs |->
          IF q = p THEN [file |-> f, linked |-> TRUE, alone |-> TRUE]
          ELSE IF handle[q].file = f THEN [handle[q] EXCEPT !.alone = FALSE]
          ELSE handle[q]]
    /\ obs' = NoCall
    /\ UNCHANGED lastop

\* Path.write_text, second half: the text is written at offset 0 and the file closed
WriteFile(p, text) ==
    /\ files' = IF handle[p].linked
                THEN [files EXCEPT ![handle[p].file].text = Overlay(@, text)]
                ELSE files
    /\ handle' = [q \in Procs |->
          IF q = p THEN NoHandle
          ELSE IF handle[q].file = handle[p].file THEN [handle[q] EXCEPT !.alone = FALSE]
          ELSE handle[q]]
    /\ lastop' = [lastop EXCEPT ![handle[p].file] =
          [by |-> p, kind |-> "write", text |-> text, alone |-> handle[p].alone]]
    /\ obs' = NoCall

\* save_prediction: self._info_file(info.name).write_text(info.json())
OpenInfo(p) ==
    /\ pc[p] = "open_info"
    /\ OpenFile(p, info_file(frame[p].info.name))
    /\ pc' = [pc EXCEPT ![p] = "write_info"]
    /\ frame' = Logged(p, <<"open", "info", files[info_file(frame[p].info.name)].exists>>)
    /\ UNCHANGED <<tzone, dirExists, env, call, ret>>

WriteInfo(p) ==
    /\ pc[p] = "write_info"
    /\ WriteFile(p, info_json(frame[p].info))
    /\ pc' = [pc EXCEPT ![p] = "open_data"]
    /\ frame' = Logged(p, <<"write", "info">>)
    /\ UNCHANGED <<tzone, dirExists, env, call, ret>>

\* save_prediction: self._data_file(info.name).write_text(data.json())
OpenData(p) ==
    /\ pc[p] = "open_data"
    /\ OpenFile(p, data_file(frame[p].info.name))
    /\ pc' = [pc EXCEPT ![p] = "write_data"]
    /\ frame' = Logged(p, <<"open", "data", files[data_file(frame[p].info.name)].exists>>)
    /\ UNCHANGED <<tzone, dirExists, env, call, ret>>

\* the data is written; save_prediction returns, and compute_prediction with it
WriteData(p) ==
    /\ pc[p] = "write_data"
    /\ WriteFile(p, data_json(frame[p].data))
    /\ pc' = [pc EXCEPT ![p] = "idle"]
    /\ frame' = [frame EXCEPT ![p] =
          Finish([@ EXCEPT !.log = Append(@, <<"write", "data">>)],
                 IF @.op = "compute_prediction" THEN Ok(@.data) ELSE Ok(None))]
    /\ UNCHANGED <<tzone, dirExists, env, call, ret>>

\* get_info(timegroup), get_data(timegroup) by a reader of the store
GetInfo(timegroup) ==
    /\ obs' = [op |-> "get_info", timegroup |-> timegroup, ret |-> get_info(timegroup)]
    /\ UNCHANGED <<tzone, dirExists, files, handle, lastop, pc, frame, env, call, ret>>

GetData(timegroup) ==
    /\ obs' = [op |-> "get_data", timegroup |-> timegroup, ret |-> get_data(timegroup)]
    /\ UNCHANGED <<tzone, dirExists, files, handle, lastop, pc, frame, env, call, ret>>

\* the data source's history or availability changes between two operations (a
\* change during an operation is a behaviour of its own: recent windows are
\* answered, old ones are not)
EnvChanges ==
    /\ \A p \in Procs : pc[p] = "idle"
    /\ env' \in Envs \ {env}
    /\ UNCHANGED <<tzone, dirExists, files, handle, lastop, pc, frame, obs, call, ret>>

------------------------------------------------------------------------------
(* Spec: one process works on the store, readers look at it at any moment *)

\* now: Tuesday 2023-03-28 10:00 in Europe/Berlin, two days after the clock change
ComputeNows == {1679990400}

\* the PredictionInfo a caller builds at now for a timegroup
InfoAt(now, name, period, horizon, cf) ==
    LET g == get_timegroup_relative_time(now, PREDICTION_PERIODS[period]) IN
    PredictionInfo(name, now, <<g[2], g[3]>>, cf, "load1",
                   PREDICTION_PERIODS[period].slice,
                   PredictionParameters(period, horizon))

\* <<name, period of the parameters, horizon in days, cf, period_info passed>>
ComputeCases ==
    {<<"tuesday", "wday", 15, "max", "wday">>,       \* three Tuesdays
     <<"tuesday", "wday", 8, "MAX", "wday">>,        \* two Tuesdays
     <<"everyday", "hour", 2, "average", "hour">>,   \* two days
     <<"tuesday", "wday", 0, "max", "wday">>,        \* no horizon: no window
     <<"tuesday", "wday", 1, "max", "minute">>}      \* no hour is called tuesday

SavedData ==
    {PredictionData(<<None, DataStat(Num(1), Num(0), Num(2), sqrt(Num(2)))>>,
                    <<0, 7200>>, 3600)}

SaveCases == {<<"tuesday", "wday", 15, "max">>, <<"everyday", "hour", 2, "average">>}

Init ==
    /\ Quiet
    /\ tzone = "Europe/Berlin"
    /\ env \in Envs
    /\ call = NoCall
    /\ ret = Pending

Next ==
    \/ \E now \in ComputeNows, c \in ComputeCases :
          CallComputePrediction(1, 0, InfoAt(now, c[1], c[2], c[3], c[4]), now,
                                PREDICTION_PERIODS[c[5]])
    \/ \E now \in ComputeNows, c \in SaveCases, data \in SavedData :
          CallSavePrediction(1, 0, InfoAt(now, c[1], c[2], c[3], c[4]), data)
    \/ \E timegroup \in StoreGroups : CallRemovePrediction(1, 0, timegroup)
    \/ UnlinkData(1)
    \/ UnlinkInfo(1)
    \/ TimeSlices(1)
    \/ Fetch(1)
    \/ Calculate(1)
    \/ Mkdir(1)
    \/ OpenInfo(1)
    \/ WriteInfo(1)
    \/ OpenData(1)
    \/ WriteData(1)
    \/ \E timegroup \in StoreGroups : GetInfo(timegroup)
    \/ \E timegroup \in StoreGroups : GetData(timegroup)
    \/ EnvChanges

Spec == Init /\ [][Next]_vars

------------------------------------------------------------------------------
(* SpecConc: two processes work on the files of one timegroup at the same time *)

\* operations each process makes
MaxRounds == 1

ConcCases == {<<"tuesday", "wday", 15, "max", "wday">>, <<"tuesday", "wday", 8, "MAX", "wday">>}

InitConc ==
    /\ Quiet
    /\ tzone = "Europe/Berlin"
    /\ env = [rrd |-> "fine", debug |-> FALSE]
    /\ call = NoCall
    /\ ret = Pending

NextConc ==
    \E p \in Procs :
        \/ /\ frame[p].n < MaxRounds
           /\ \/ \E now \in ComputeNows, c \in ConcCases :
                    CallComputePrediction(p, frame[p].n + 1,
                                          InfoAt(now, c[1], c[2], c[3], c[4]), now,
                                          PREDICTION_PERIODS[c[5]])
              \/ \E now \in ComputeNows, data \in SavedData :
                    CallSavePrediction(p, frame[p].n + 1,
                                       InfoAt(now, "tuesday", "wday", 15, "max"), data)
              \/ CallRemovePrediction(p, frame[p].n + 1, "tuesday")
        \/ UnlinkData(p)
        \/ UnlinkInfo(p)
        \/ TimeSlices(p)
        \/ Fetch(p)
        \/ Calculate(p)
        \/ Mkdir(p)
        \/ OpenInfo(p)
        \/ WriteInfo(p)
        \/ OpenData(p)
        \/ WriteData(p)

SpecConc == InitConc /\ [][NextConc]_vars

------------------------------------------------------------------------------
(* Properties of the store and of compute_prediction with one writer (Spec) *)

Events(log, kind) == {k \in 1..Len(log) : log[k][1] = kind}

\* the file obs was read from
ObservedFile ==
    IF obs.op = "get_info" THEN files[info_file(obs.timegroup)]
    ELSE files[data_file(obs.timegroup)]

\* both files of the timegroup hold a complete text
PairComplete(timegroup) ==
    /\ get_info(timegroup).tag = "ok" /\ get_info(timegroup).val /= None
    /\ get_data(timegroup).tag = "ok" /\ get_data(timegroup).val /= None

PairAbsent(timegroup) ==
    /\ ~files[info_file(timegroup)].exists
    /\ ~files[data_file(timegroup)].exists

\* C1: after save_prediction(info, data) get_data(info.name) returns data and
\* get_info(info.name) returns info; after remove_prediction(b) get_data(b)
\* returns None; whatever the store held before.
C1_GetReturnsWhatWasSaved ==
    /\ (Completed(1) /\ frame[1].op = "save_prediction" /\ obs.op /= "none"
          /\ obs.timegroup = frame[1].info.name) =>
            /\ frame[1].result = Ok(None)
            /\ obs.op = "get_data" => obs.ret = Ok(frame[1].data)
            /\ obs.op = "get_info" => obs.ret = Ok(frame[1].info)
    /\ (Completed(1) /\ frame[1].op = "remove_prediction" /\ obs.op = "get_data"
          /\ obs.timegroup = frame[1].timegroup) =>
            obs.ret = Ok(None)

\* a save over an existing data file, read back
C1_Witness ==
    /\ Completed(1)
    /\ frame[1].op = "save_prediction"
    /\ \E k \in 1..Len(frame[1].log) : frame[1].log[k] = <<"open", "data", TRUE>>
    /\ obs.op = "get_data"
    /\ obs.timegroup = frame[1].info.name
    /\ obs.ret = Ok(frame[1].data)

\* C2: compute_prediction removes the stored artifact of info.name as its first
\* action, before partitioning and before any fetch, and on successful return
\* get_info(info.name) is info and get_data(info.name) the returned data.
C2_ComputeSupersedes ==
    frame[1].op = "compute_prediction" =>
        LET log == frame[1].log
            name == frame[1].info.name
        IN  /\ \A k \in 1..Len(log) :
                  /\ k = 1 <=> (log[k][1] = "unlink" /\ log[k][2] = "data")
                  /\ k = 2 <=> (log[k][1] = "unlink" /\ log[k][2] = "info")
            /\ pc[1] \in {"time_slices", "fetch", "calculate", "mkdir"} => PairAbsent(name)
            /\ (Completed(1) /\ frame[1].result.tag = "ok") =>
                  /\ get_info(name) = Ok(frame[1].info)
                  /\ get_data(name) = Ok(frame[1].result.val)

\* a recomputation that found an artifact, with a point without data
C2_Witness ==
    /\ Completed(1)
    /\ frame[1].op = "compute_prediction"
    /\ frame[1].result.tag = "ok"
    /\ frame[1].log[1] = <<"unlink", "data", TRUE>>
    /\ frame[1].log[2] = <<"unlink", "info", TRUE>>
    /\ \E k \in 1..Len(frame[1].result.val.points) : frame[1].result.val.points[k] = None
    /\ get_data(frame[1].info.name) = Ok(frame[1].result.val)

\* no file is opened or written before every window is fetched and the statistics
\* are computed
WritesFollowCalculation(p) ==
    LET log == frame[p].log IN
    \A k \in Events(log, "mkdir") \cup Events(log, "open") \cup Events(log, "write") :
        /\ Cardinality({j \in Events(log, "fetch") : j < k}) = Len(frame[p].time_windows)
        /\ \E j \in Events(log, "calculate") : j < k

SavedAtMostOnce(p) == Cardinality(Events(frame[p].log, "mkdir")) <= 1

\* C3 as stated: compute_prediction writes no file before every fetch succeeded
\* and the statistics are computed, saves at most once, and no observer ever sees
\* a partly written artifact.
C3_NoPartialArtifactEverVisible ==
    frame[1].op = "compute_prediction" =>
        /\ WritesFollowCalculation(1)
        /\ SavedAtMostOnce(1)
        /\ Events(frame[1].log, "calculate") /= {} =>
              PairAbsent(frame[1].info.name) \/ PairComplete(frame[1].info.name)

\* C3, amended: compute_prediction writes no file before every fetch succeeded and
\* the statistics are computed, and saves at most once; the save writes the info
\* file and then the data file, each by truncating and then writing it, so a
\* partly written artifact is visible between the opening of the info file and
\* the writing of the data file, and only then; after a successful return both
\* files are complete.
C3_PartialOnlyDuringSave ==
    frame[1].op = "compute_prediction" =>
        /\ WritesFollowCalculation(1)
        /\ SavedAtMostOnce(1)
        /\ (/\ Events(frame[1].log, "calculate") /= {}
            /\ ~PairAbsent(frame[1].info.name)
            /\ ~PairComplete(frame[1].info.name)) =>
              pc[1] \in {"write_info", "open_data", "write_data"}
        /\ (Completed(1) /\ frame[1].result.tag = "ok") => PairComplete(frame[1].info.name)

\* a reader finds the info of the running computation and no data
C3_Witness ==
    /\ frame[1].op = "compute_prediction"
    /\ pc[1] = "open_data"
    /\ get_info(frame[1].info.name) = Ok(frame[1].info)
    /\ obs.op = "get_data"
    /\ obs.timegroup = frame[1].info.name
    /\ obs.ret = Ok(None)

DataUnavailable == {"MKGeneralException", "MKLivestatusNotFoundError"}

\* the data source has nothing for the window: not found, or no response
SourceFails(e, w) ==
    LET r == livestatus_get_rrd_data(e, w[1], w[2]) IN r.tag /= "ok" \/ r = Ok(None)

\* the fetches made are those of the first windows, in order, each once
FetchesInOrder(fr) ==
    LET f == SelectSeq(fr.log, LAMBDA e : e[1] = "fetch") IN
    /\ Len(f) <= Len(fr.time_windows)
    /\ \A k \in 1..Len(f) : f[k][2] = fr.time_windows[k][1]
    /\ \A j, k \in 1..Len(f) : j /= k => f[j][2] /= f[k][2]

\* C4: when the data source fails for a window, compute_prediction ends there with
\* a data-unavailable error: the fetch is not repeated, no later window is
\* fetched and save_prediction is not called.
C4_FetchFailurePropagates ==
    [][(/\ pc[1] = "fetch"
        /\ frame'[1] /= frame[1]
        /\ SourceFails(env, frame[1].time_windows[Len(frame[1].responses) + 1]))
       => (/\ pc'[1] = "idle"
           /\ frame'[1].result.tag \in DataUnavailable
           /\ FetchesInOrder(frame'[1])
           /\ Len(SelectSeq(frame'[1].log, LAMBDA e : e[1] = "fetch"))
                 = Len(frame[1].responses) + 1
           /\ Events(frame'[1].log, "mkdir") = {}
           /\ Events(frame'[1].log, "open") = {}
           /\ Events(frame'[1].log, "write") = {})]_vars

\* the second of three windows was not found: two fetches, no third
C4_Witness ==
    /\ Completed(1)
    /\ frame[1].op = "compute_prediction"
    /\ frame[1].result.tag = "MKGeneralException"
    /\ Len(frame[1].time_windows) = 3
    /\ Cardinality(Events(frame[1].log, "fetch")) = 2
    /\ Events(frame[1].log, "mkdir") = {}

\* C5: a second compute_prediction right after a first, with the same info, now
\* and period and the same environment, returns or raises the same and leaves the
\* store as the first left it.
C5_Idempotent ==
    (/\ Completed(1)
     /\ frame[1].op = "compute_prediction"
     /\ frame[1].prev.op = "compute_prediction"
     /\ frame[1].prev.env = frame[1].env) =>
        /\ frame[1].result = frame[1].prev.result
        /\ files = frame[1].prev.files
        /\ dirExists = frame[1].prev.dirExists

C5_Witness ==
    /\ Completed(1)
    /\ frame[1].op = "compute_prediction"
    /\ frame[1].prev.op = "compute_prediction"
    /\ frame[1].prev.env = frame[1].env
    /\ frame[1].result.tag = "ok"
    /\ frame[1].result = frame[1].prev.result
    /\ files = frame[1].prev.files

\* C8: remove_prediction ends without error and leaves both files absent, whether
\* they existed or not; get_info and get_data return None exactly when their file
\* does not exist, and raise when it exists with a text that is not the JSON of
\* an object.
C8_AbsenceIsNotCorruption ==
    /\ (Completed(1) /\ frame[1].op = "remove_prediction") =>
          /\ frame[1].result = Ok(None)
          /\ PairAbsent(frame[1].timegroup)
    /\ obs.op \in {"get_info", "get_data"} =>
          /\ ~ObservedFile.exists <=> obs.ret = Ok(None)
          /\ (ObservedFile.exists /\ ObservedFile.text = <<>>) =>
                obs.ret.tag = "ValidationError"
          /\ (ObservedFile.exists /\ obs.ret.tag = "ok") =>
                ObservedFile.text = IF obs.op = "get_info" THEN info_json(obs.ret.val)
                                    ELSE data_json(obs.ret.val)
          /\ obs.ret.tag \in {"ok", "ValidationError"}

\* a reader meets the data file opened and not yet written
C8_Witness ==
    /\ obs.op = "get_data"
    /\ ObservedFile.exists
    /\ ObservedFile.text = <<>>
    /\ obs.ret.tag = "ValidationError"

------------------------------------------------------------------------------
(* Properties of two writers on one timegroup (SpecConc) *)

AllIdle == \A p \in Procs : pc[p] = "idle"

\* what the last operation on path f left there, had nothing else touched f
LeftBy(op) ==
    IF op.kind = "write" THEN [exists |-> TRUE, text |-> op.text] ELSE NoFile

\* C9 as stated: with two writers on one timegroup, each file on its own always
\* holds what the last writer of that file wrote (and is absent when that was a
\* removal).
C9_LastWriterWinsPerFile ==
    AllIdle =>
        \A f \in FileNames : lastop[f].kind /= "none" => files[f] = LeftBy(lastop[f])

\* C9, amended: with two writers on one timegroup the two files can end as no
\* writer's pair, and each file on its own holds what the last writer of that
\* file wrote when no other writer opened, wrote or unlinked the file between
\* that writer's opening and its writing of the file.
C9_LastWriterWinsUnlessOverlapped ==
    AllIdle =>
        \A f \in FileNames :
            (lastop[f].kind /= "none" /\ lastop[f].alone) => files[f] = LeftBy(lastop[f])

\* two recomputations have ended: the info file is the one's, the data file the
\* other's, and the two data differ
C9_Witness ==
    /\ AllIdle
    /\ \A p \in Procs : frame[p].op = "compute_prediction" /\ frame[p].result.tag = "ok"
    /\ \E p, q \in Procs :
          /\ p /= q
          /\ frame[p].result /= frame[q].result
          /\ lastop[info_file("tuesday")].by = p
          /\ lastop[data_file("tuesday")].by = q
          /\ get_info("tuesday") = Ok(frame[p].info)
          /\ get_data("tuesday") = Ok(frame[q].result.val)

------------------------------------------------------------------------------
(* Properties of the alignment in compute_prediction (Spec) *)

\* the value of the response whose bucket, begin included and end excluded,
\* holds the time t
CoveringValue(response, t) ==
    LET w == response.window
        k == CHOOSE i \in 1..Len(response.values) :
                w.start + (i - 1) * w.step <= t /\ t < w.start + i * w.step
    IN  response.values[k]

\* the response read at the n slots of the grid that begins at start
ReadOnGrid(response, start, step, n) ==
    [j \in 1..n |-> CoveringValue(response, start + (j - 1) * step)]

\* the response has the window that was asked for, and a value for each step
AsRequested(response, w) ==
    /\ response.window.start = w[1]
    /\ response.window.stop = w[2]
    /\ response.window.step >= 1
    /\ Len(response.values) * response.window.step = w[2] - w[1]

\* C19: every fetched window w has the shift most_recent_window.start - w.start,
\* 0 for the most recent and positive for the older ones; on success the result
\* has the time window and the step of W, the window of the most recent
\* response, one point per slot of W's grid, and its points summarize the
\* responses read on W's grid moved back by their shifts; when every response
\* has the window asked for, with a step not smaller than W's, it succeeds.
C19_AlignedOnMostRecentGrid ==
    (frame[1].op = "compute_prediction" /\ frame[1].responses /= <<>>) =>
        LET rs == frame[1].responses
            tws == frame[1].time_windows
            W == rs[1][1].window
            n == Len(PyRange(W.start, W.stop, W.step))
        IN  /\ \A k \in 1..Len(rs) :
                  /\ rs[k][2] = tws[1][1] - tws[k][1]
                  /\ k = 1 => rs[k][2] = 0
                  /\ k > 1 => rs[k][2] > 0
            /\ (Completed(1) /\ frame[1].result.tag = "ok") =>
                  LET data == frame[1].result.val IN
                  /\ data.data_twindow = <<W.start, W.stop>>
                  /\ data.step = W.step
                  /\ Len(data.points) = n
                  /\ data.points =
                        data_stats([k \in 1..Len(rs) |->
                            ReadOnGrid(rs[k][1], W.start - rs[k][2], W.step, n)])
            /\ (/\ Completed(1)
                /\ Len(rs) = Len(tws)
                /\ \A k \in 1..Len(rs) :
                      AsRequested(rs[k][1], tws[k]) /\ rs[k][1].window.step >= W.step) =>
                  frame[1].result.tag = "ok"

\* three Tuesdays, the two older ones of one sample each, read on three slots
C19_Witness ==
    /\ Completed(1)
    /\ frame[1].op = "compute_prediction"
    /\ frame[1].result.tag = "ok"
    /\ Len(frame[1].responses) = 3
    /\ Len(frame[1].responses[1][1].values) = 3
    /\ Len(frame[1].responses[3][1].values) = 1
    /\ frame[1].responses[3][2] > frame[1].responses[2][2]
    /\ Len(frame[1].result.val.points) = 3

------------------------------------------------------------------------------
(* Properties of the buckets (SpecPeriod) *)

\* the width of the buckets of a period
BucketWidth(period) == IF period = "minute" THEN 3600 ELSE 86400

\* C20: for every period and every time t the offset is
\* (t - timezone_at(t)) mod the bucket width and lies in 0..width-1, the bucket
\* begins at t - offset and ends one width later, and t lies in it.
C20_BucketHoldsItsTime ==
    (Returned /\ call.op = "get_timegroup_relative_time") =>
        LET width == BucketWidth(call.period)
            from_time == ret.val[2]
            until_time == ret.val[3]
            offset == ret.val[4]
        IN  /\ ret.tag = "ok"
            /\ offset = (call.t - timezone_at(call.t)) % width
            /\ offset = groupby(PREDICTION_PERIODS[call.period], call.t)[2]
            /\ 0 <= offset /\ offset < width
            /\ from_time = call.t - offset
            /\ until_time = from_time + width
            /\ from_time <= call.t /\ call.t < until_time
            /\ until_time - from_time = width

\* half past midnight in Berlin's summer: half an hour into the day's bucket
C20_Witness ==
    /\ Returned
    /\ call.op = "get_timegroup_relative_time"
    /\ tzone = "Europe/Berlin"
    /\ is_dst(call.t)
    /\ call.period = "wday"
    /\ ret.val[4] = 1800
    /\ ret.val[3] = ret.val[2] + 86400

------------------------------------------------------------------------------
(* Properties of the timestamps of a window (SpecSeries) *)

\* ceil((end - start) / step) for step > 0, and 0 for a window that ends before
\* it begins
SlotCount(tw) ==
    IF tw[2] > tw[1] THEN (tw[2] - tw[1] + tw[3] - 1) \div tw[3] ELSE 0

\* the timestamps of a window: one per slot, the k-th at start + k * step,
\* increasing and after start; none for step 0
TimestampsOfSlots ==
    (Returned /\ call.op = "rrd_timestamps") =>
        LET tw == call.time_window IN
        /\ ret.tag = "ok"
        /\ tw[3] = 0 => ret.val = <<>>
        /\ tw[3] > 0 =>
              /\ Len(ret.val) = SlotCount(tw)
              /\ \A k \in 1..Len(ret.val) :
                    /\ ret.val[k] = tw[1] + k * tw[3]
                    /\ ret.val[k] > tw[1]
                    /\ k > 1 => ret.val[k] > ret.val[k - 1]

\* the values a constructor call hands over, behind the window if it is in data
GivenValues ==
    IF call.time_window /= None THEN call.data ELSE SubSeq(call.data, 4, Len(call.data))

\* C21 as stated: the timestamps are those of the slots, and a series that was
\* built has as many values as its window has timestamps.
C21_SeriesHasOneValuePerTimestamp ==
    /\ TimestampsOfSlots
    /\ (Returned /\ call.op = "TimeSeries" /\ ret.tag = "ok" /\ ret.val.step > 0) =>
          Len(ret.val.values) = Len(rrd_timestamps(twindow(ret.val)))

\* C21, amended: the timestamps are those of the slots; a series that was built
\* has as many values as it was given, whatever its window, and its
\* time_data_pairs are as many as the fewer of the two.
C21_SeriesKeepsTheGivenValues ==
    /\ TimestampsOfSlots
    /\ (Returned /\ call.op = "TimeSeries" /\ ret.tag = "ok") =>
          LET n == Len(rrd_timestamps(twindow(ret.val)))
              m == Len(GivenValues)
          IN  /\ Len(ret.val.values) = m
              /\ Len(time_data_pairs(ret.val)) = (IF n < m THEN n ELSE m)

\* a window of three slots that ends inside its last step
C21_Witness ==
    /\ Returned
    /\ call.op = "rrd_timestamps"
    /\ call.time_window = <<1, 6, 2>>
    /\ ret.val = <<3, 5, 7>>

\* a series built with two values next to a window of one slot
C21_WitnessSeries ==
    /\ Returned
    /\ call.op = "TimeSeries"
    /\ ret.tag = "ok"
    /\ twindow(ret.val) = <<0, 1, 1>>
    /\ Len(ret.val.values) = 2

------------------------------------------------------------------------------
(* Properties of the store between the file operations of one writer (Spec) *)

\* C22: with one writer, in every state between the single file operations of
\* save_prediction, remove_prediction and compute_prediction, a timegroup's data
\* file exists only if its info file exists.
C22_DataOnlyWithInfo ==
    \A timegroup \in StoreGroups :
        files[data_file(timegroup)].exists => files[info_file(timegroup)].exists

\* between the two unlinks of a compute_prediction that found an artifact: the
\* data file is gone and the info file is still there
C22_Witness ==
    /\ frame[1].op = "compute_prediction"
    /\ pc[1] = "unlink_info"
    /\ frame[1].log = <<<<"unlink", "data", TRUE>>>>
    /\ ~files[data_file(frame[1].timegroup)].exists
    /\ files[info_file(frame[1].timegroup)].exists

------------------------------------------------------------------------------
(* Properties of a compute_prediction that fails (Spec) *)

\* C23: when compute_prediction has failed, the store has neither file of
\* info.name, whatever it held before the call; the call has opened and written
\* no file, and get_info and get_data return None. A partition without a window,
\* as with a horizon of 0 days, is such a failure.
C23_FailureLeavesNoArtifact ==
    (Completed(1) /\ frame[1].op = "compute_prediction") =>
        LET name == frame[1].info.name
            log == frame[1].log
        IN  /\ frame[1].result.tag /= "ok" =>
                  /\ PairAbsent(name)
                  /\ get_info(name) = Ok(None)
                  /\ get_data(name) = Ok(None)
                  /\ (obs.op \in {"get_info", "get_data"} /\ obs.timegroup = name) =>
                        obs.ret = Ok(None)
                  /\ Len(log) >= 2 /\ log[1][1] = "unlink" /\ log[2][1] = "unlink"
                  /\ Events(log, "open") = {}
                  /\ Events(log, "write") = {}
            /\ (frame[1].info.params.horizon = 0 \/ frame[1].time_windows = <<>>) =>
                  frame[1].result = Raise("IndexError")

\* an artifact was there, the second fetch failed, and a reader finds no data
C23_Witness ==
    /\ Completed(1)
    /\ frame[1].op = "compute_prediction"
    /\ frame[1].result.tag \in DataUnavailable
    /\ Len(frame[1].responses) = 1
    /\ frame[1].log[1] = <<"unlink", "data", TRUE>>
    /\ frame[1].log[2] = <<"unlink", "info", TRUE>>
    /\ obs.op = "get_data"
    /\ obs.timegroup = frame[1].info.name
    /\ obs.ret = Ok(None)

\* an artifact was there and the partition had no window
C23_WitnessNoWindow ==
    /\ Completed(1)
    /\ frame[1].op = "compute_prediction"
    /\ frame[1].time_windows = <<>>
    /\ frame[1].info.params.horizon = 1
    /\ frame[1].log[1] = <<"unlink", "data", TRUE>>
    /\ obs.op = "get_info"
    /\ obs.timegroup = frame[1].info.name
    /\ obs.ret = Ok(None)

====
